---- MODULE Spec2Model ----
(***************************************************************************)
(* The real-time CSI capture loop of csi_realTimeAmp.py: sniffing() and    *)
(* the functions it calls (truncate, process_csi_data, append_to_csv,      *)
(* update_plot).  One loop iteration is modelled as a chain of steps, one  *)
(* per block of statements of sniffing(), so that the position of the      *)
(* stop-key poll and of each sink write inside an iteration is visible.    *)
(*                                                                         *)
(* Timestamps are fixed point, in hundredths of a second.  A CSI payload   *)
(* is the sequence of int16 words np.frombuffer reads from it.             *)
(***************************************************************************)
EXTENDS Integers, Sequences, FiniteSets

VARIABLES
    pc,         \* position of sniffing(): the step that runs next, "stopped" or "crashed"
    key,        \* TRUE while the 's' key is held down (keyboard.is_pressed('s'))
    captured,   \* number of frames the sniffer has yielded so far
    frame,      \* the (ts, pkt) pair of the current iteration, NoFrame between iterations
    before_ts,  \* sniffing(): before_ts
    csi_data,   \* sniffing(): csi_data of the current iteration, <<>> between iterations
    y_list,     \* the per-subcarrier windows created by setup_plot()
    minmax,     \* sniffing(): minmax, a list of <<min, max>> pairs
    gap_count,  \* sniffing(): gap_count, the cadence counter
    idx,        \* sniffing(): idx
    txt,        \* the gap shown by the text artist: <<>> for 'None', <<gap>> otherwise
    csv,        \* the lines of the session's CSV file
    drawn,      \* history: ids of the frames whose plot was drawn by fig.canvas.draw()
    accepted,   \* history: [id, ts] of the frames that passed both filter checks
    bandwidth,  \* shift study: the bandwidth process_csi_data is called with
    samples,    \* shift study: the complex samples before any shift
    shifted,    \* shift study: samples after `applied` applications of fftshift
    applied     \* shift study: number of applications so far

vars == <<pc, key, captured, frame, before_ts, csi_data, y_list, minmax,
          gap_count, idx, txt, csv, drawn, accepted,
          bandwidth, samples, shifted, applied>>

loopVars == <<pc, key, captured, frame, before_ts, csi_data, y_list, minmax,
              gap_count, idx, txt, csv, drawn, accepted>>

shiftVars == <<bandwidth, samples, shifted, applied>>

----------------------------------------------------------------------------
(* Configuration of the program, checked here for small values (the source *)
(* sets BANDWIDTH = 20, show_packet_length = 100, GAP_PACKET_NUM = 20).    *)
BANDWIDTH == 1

show_packet_length == 3

GAP_PACKET_NUM == 3

(* Bounds of the exploration.                                              *)
MaxCaptured == 5

MaxBandwidth == 3

----------------------------------------------------------------------------
(* int(bandwidth * 3.2)                                                    *)
NsubOf(bw) == (bw * 32) \div 10

NSUB == NsubOf(BANDWIDTH)

selected_mac == "5c0214fb6552"

other_mac == "a0b1c2d3e4f5"

----------------------------------------------------------------------------
(* truncate(num, n) on a fixed-point number of hundredths: the digits      *)
(* after the n-th decimal are dropped.                                     *)
Pow10(n) == IF n = 0 THEN 1 ELSE IF n = 1 THEN 10 ELSE 100

truncate_NoOp(num, n) == num

truncate(num, n) == (num \div Pow10(2 - n)) * Pow10(2 - n)

(* int(ts) of a fixed-point number of hundredths, in hundredths.           *)
IntPart(num) == (num \div 100) * 100

(* The test of sniffing() lines 168-171.                                   *)
IsDuplicate(ts, bef) ==
    /\ IntPart(ts) = IntPart(bef)
    /\ truncate(ts, 1) = truncate(bef, 1)

----------------------------------------------------------------------------
(* process_csi_data                                                        *)

Abs(x) == IF x < 0 THEN -x ELSE x

(* np.abs of a complex sample <<re, im>>, for the samples whose magnitude  *)
(* is a whole number.                                                      *)
Magnitude(c) ==
    CHOOSE r \in 0..(Abs(c[1]) + Abs(c[2])) : r * r = c[1] * c[1] + c[2] * c[2]

(* csi_np[:1, ::2] + 1.j * csi_np[:1, 1::2]: words 2k, 2k+1 (0-based) form *)
(* sample k.                                                               *)
ToComplex(words, nsub) == [k \in 1..nsub |-> <<words[2 * k - 1], words[2 * k]>>]

(* np.fft.fftshift over one axis of length n: a roll by n // 2.            *)
fftshift_RollOne(x) ==
    [i \in 1..Len(x) |-> x[((i - 1 - 1 + Len(x)) % Len(x)) + 1]]

fftshift(x) ==
    [i \in 1..Len(x) |-> x[((i - 1 - (Len(x) \div 2) + Len(x)) % Len(x)) + 1]]

(* np.frombuffer(csi, dtype=np.int16, count=nsub * 2) raises ValueError    *)
(* when the buffer holds fewer than nsub * 2 words.                        *)
FrombufferFails(words, bw) == Len(words) < 2 * NsubOf(bw)

process_csi_data(words, bw) ==
    LET nsub == NsubOf(bw)
        cmplx == fftshift(ToComplex(SubSeq(words, 1, 2 * nsub), nsub))
    IN  [i \in 1..nsub |-> Magnitude(cmplx[i])]

----------------------------------------------------------------------------
(* Captured frames.                                                        *)

Timestamps == {3, 104, 108, 112}

Amps == {1, 4}

(* A payload of NSUB samples, sample k (0-based) being                     *)
(* 3(a+k) - 4(a+k)j, of magnitude 5(a+k); the payload built from a = 4     *)
(* carries one trailing word more than the 2 * NSUB that are read.         *)
PayloadOf(a) ==
    LET full == [w \in 1..(2 * NSUB) |->
                    LET k == (w - 1) \div 2
                    IN  IF w % 2 = 1 THEN 3 * (a + k) ELSE -4 * (a + k)]
    IN  IF a = 4 THEN Append(full, 7) ELSE full

ShortPayload == SubSeq(PayloadOf(1), 1, 2 * NSUB - 1)

NoFrame == [id |-> 0, ts |-> 0, wellformed |-> TRUE, mac |-> "", csi |-> <<>>]

Frames(id) ==
    {[id |-> id, ts |-> t, wellformed |-> FALSE, mac |-> "", csi |-> <<>>] :
        t \in Timestamps}
    \cup
    {[id |-> id, ts |-> t, wellformed |-> TRUE, mac |-> other_mac, csi |-> PayloadOf(1)] :
        t \in Timestamps}
    \cup
    {[id |-> id, ts |-> t, wellformed |-> TRUE, mac |-> selected_mac, csi |-> p] :
        t \in Timestamps, p \in {PayloadOf(a) : a \in Amps} \cup {ShortPayload}}

----------------------------------------------------------------------------
(* The CSV file.                                                           *)

Header == [kind |-> "header", columns |-> 1 + NSUB]

Row(t, data) == [kind |-> "row", timestamp |-> t, data |-> data]

(* setup_csv_file: a new file holding the header line.                     *)
setup_csv_file == <<Header>>

append_to_csv_WithHeader(file, timestamp, data) ==
    file \o <<Header, Row(timestamp, data)>>

(* append_to_csv: mode='a', header=False.                                  *)
append_to_csv(file, timestamp, data) == Append(file, Row(timestamp, data))

----------------------------------------------------------------------------
(* The plot state.                                                         *)

(* setup_plot: NSUB windows of show_packet_length zeros.                   *)
setup_plot == [i \in 1..NSUB |-> [j \in 1..show_packet_length |-> 0]]

SlideWindow_NoEvict(y, new_y) == Append(y, new_y)

(* update_plot lines 124-126: del y[0]; y.append(new_y)                    *)
SlideWindow(y, new_y) == Append(Tail(y), new_y)

(* update_plot lines 131-137: with gap_count = 0 every subcarrier appends  *)
(* a fresh [new_y, new_y] pair to minmax; otherwise entry i is widened.    *)
UpdateMinmax(mm, data, count) ==
    IF count = 0
    THEN mm \o [i \in 1..Len(data) |-> <<data[i], data[i]>>]
    ELSE [j \in 1..Len(mm) |->
            IF j <= Len(data)
            THEN << IF mm[j][1] > data[j] THEN data[j] ELSE mm[j][1],
                    IF mm[j][2] < data[j] THEN data[j] ELSE mm[j][2] >>
            ELSE mm[j]]

(* update_plot lines 140-141: max(mm[1] - mm[0] for mm in minmax)          *)
Gap(mm) ==
    LET gaps == {mm[j][2] - mm[j][1] : j \in 1..Len(mm)}
    IN  CHOOSE g \in gaps : \A h \in gaps : h <= g

----------------------------------------------------------------------------
Init ==
    /\ pc = "waiting"
    /\ key = FALSE
    /\ captured = 0
    /\ frame = NoFrame
    /\ before_ts = 0
    /\ csi_data = <<>>
    /\ y_list = setup_plot
    /\ minmax = <<>>
    /\ gap_count = 0
    /\ idx = show_packet_length - 1
    /\ txt = <<>>
    /\ csv = setup_csv_file
    /\ drawn = <<>>
    /\ accepted = <<>>
    /\ bandwidth = BANDWIDTH
    /\ samples = <<>>
    /\ shifted = <<>>
    /\ applied = 0

(* The operator presses or releases the 's' key, at any moment.            *)
PressKey ==
    /\ pc \notin {"stopped", "crashed"}
    /\ ~key
    /\ key' = TRUE
    /\ UNCHANGED <<pc, captured, frame, before_ts, csi_data, y_list, minmax,
                   gap_count, idx, txt, csv, drawn, accepted>>
    /\ UNCHANGED shiftVars

ReleaseKey ==
    /\ pc \notin {"stopped", "crashed"}
    /\ key
    /\ key' = FALSE
    /\ UNCHANGED <<pc, captured, frame, before_ts, csi_data, y_list, minmax,
                   gap_count, idx, txt, csv, drawn, accepted>>
    /\ UNCHANGED shiftVars

(* for ts, pkt in sniffer: the sniffer yields the next frame.              *)
Capture ==
    /\ pc = "waiting"
    /\ captured < MaxCaptured
    /\ captured' = captured + 1
    /\ \E f \in Frames(captured + 1) : frame' = f
    /\ pc' = "dup_check"
    /\ UNCHANGED <<key, before_ts, csi_data, y_list, minmax, gap_count, idx,
                   txt, csv, drawn, accepted>>
    /\ UNCHANGED shiftVars

(* The 50 ms read timeout passes with no frame: the sniffer yields nothing *)
(* and reads again.                                                        *)
Timeout ==
    /\ pc = "waiting"
    /\ pc' = "timed_out"
    /\ UNCHANGED <<key, captured, frame, before_ts, csi_data, y_list, minmax,
                   gap_count, idx, txt, csv, drawn, accepted>>
    /\ UNCHANGED shiftVars

Retry ==
    /\ pc = "timed_out"
    /\ pc' = "waiting"
    /\ UNCHANGED <<key, captured, frame, before_ts, csi_data, y_list, minmax,
                   gap_count, idx, txt, csv, drawn, accepted>>
    /\ UNCHANGED shiftVars

(* sniffing() lines 168-173.                                               *)
DupCheck ==
    /\ pc = "dup_check"
    /\ IF IsDuplicate(frame.ts, before_ts)
       THEN /\ before_ts' = frame.ts
            /\ frame' = NoFrame
            /\ pc' = "waiting"
       ELSE /\ pc' = "parse"
            /\ UNCHANGED <<before_ts, frame>>
    /\ UNCHANGED <<key, captured, csi_data, y_list, minmax, gap_count, idx,
                   txt, csv, drawn, accepted>>
    /\ UNCHANGED shiftVars

(* sniffing() lines 176-183 on a frame of another device: continue.        *)
MacReject_TouchTs ==
    /\ before_ts' = frame.ts
    /\ frame' = NoFrame
    /\ pc' = "waiting"
    /\ UNCHANGED accepted

MacReject_ThenPoll ==
    /\ pc' = "stop_check"
    /\ UNCHANGED <<before_ts, frame, accepted>>

MacReject ==
    /\ frame' = NoFrame
    /\ pc' = "waiting"
    /\ UNCHANGED <<before_ts, accepted>>

(* sniffing() lines 176-183: dpkt parses the frame (and raises on one too  *)
(* short to hold the headers), then the MAC address is compared.           *)
Parse ==
    /\ pc = "parse"
    /\ IF ~frame.wellformed
       THEN /\ pc' = "crashed"
            /\ UNCHANGED <<before_ts, frame, accepted>>
       ELSE IF frame.mac # selected_mac
       THEN MacReject
       ELSE /\ accepted' = Append(accepted, [id |-> frame.id, ts |-> frame.ts])
            /\ pc' = "extract"
            /\ UNCHANGED <<before_ts, frame>>
    /\ UNCHANGED <<key, captured, csi_data, y_list, minmax, gap_count, idx,
                   txt, csv, drawn>>
    /\ UNCHANGED shiftVars

(* sniffing() lines 186-188; ip.__hdr__[2][2] is the default of dpkt's IP   *)
(* length field, a constant that equals the configured bandwidth.          *)
Extract ==
    /\ pc = "extract"
    /\ IF FrombufferFails(frame.csi, BANDWIDTH)
       THEN /\ pc' = "crashed"
            /\ UNCHANGED csi_data
       ELSE /\ csi_data' = process_csi_data(frame.csi, BANDWIDTH)
            /\ pc' = "append_csv"
    /\ UNCHANGED <<key, captured, frame, before_ts, y_list, minmax, gap_count,
                   idx, txt, csv, drawn, accepted>>
    /\ UNCHANGED shiftVars

(* sniffing() lines 191-192; the write may raise (disk full, file locked). *)
AppendCsv ==
    /\ pc = "append_csv"
    /\ \/ /\ csv' = append_to_csv(csv, captured, csi_data)
          /\ pc' = "update_plot"
       \/ /\ pc' = "crashed"
          /\ UNCHANGED csv
    /\ UNCHANGED <<key, captured, frame, before_ts, csi_data, y_list, minmax,
                   gap_count, idx, txt, drawn, accepted>>
    /\ UNCHANGED shiftVars

(* sniffing() lines 195-196 and update_plot.                               *)
UpdatePlot ==
    /\ pc = "update_plot"
    /\ idx' = idx + 1
    /\ y_list' = [i \in 1..Len(y_list) |-> SlideWindow(y_list[i], csi_data[i])]
    /\ minmax' = UpdateMinmax(minmax, csi_data, gap_count)
    /\ txt' = <<Gap(minmax')>>
    /\ gap_count' = (gap_count + 1) % GAP_PACKET_NUM
    /\ pc' = "draw"
    /\ UNCHANGED <<key, captured, frame, before_ts, csi_data, csv, drawn, accepted>>
    /\ UNCHANGED shiftVars

(* sniffing() lines 199-201; the redraw may raise (window closed).         *)
Draw ==
    /\ pc = "draw"
    /\ \/ /\ drawn' = Append(drawn, frame.id)
          /\ before_ts' = frame.ts
          /\ pc' = "stop_check"
       \/ /\ pc' = "crashed"
          /\ UNCHANGED <<drawn, before_ts>>
    /\ UNCHANGED <<key, captured, frame, csi_data, y_list, minmax, gap_count,
                   idx, txt, csv, accepted>>
    /\ UNCHANGED shiftVars

(* sniffing() lines 204-206.                                               *)
StopCheck_NoExit ==
    /\ pc = "stop_check"
    /\ pc' = "waiting"
    /\ frame' = NoFrame
    /\ csi_data' = <<>>
    /\ UNCHANGED <<key, captured, before_ts, y_list, minmax, gap_count, idx,
                   txt, csv, drawn, accepted>>
    /\ UNCHANGED shiftVars

StopCheck ==
    /\ pc = "stop_check"
    /\ IF key
       THEN /\ pc' = "stopped"
            /\ UNCHANGED <<frame, csi_data>>
       ELSE /\ pc' = "waiting"
            /\ frame' = NoFrame
            /\ csi_data' = <<>>
    /\ UNCHANGED <<key, captured, before_ts, y_list, minmax, gap_count, idx,
                   txt, csv, drawn, accepted>>
    /\ UNCHANGED shiftVars

Step ==
    \/ Capture
    \/ Timeout
    \/ Retry
    \/ DupCheck
    \/ Parse
    \/ Extract
    \/ AppendCsv
    \/ UpdatePlot
    \/ Draw
    \/ StopCheck

Next ==
    \/ Step
    \/ PressKey
    \/ ReleaseKey

Spec == Init /\ [][Next]_vars

(* The loop never pauses of its own accord: the sniffer's read returns     *)
(* within 50 ms and every other statement runs to its end.                 *)
FairSpec == Init /\ [][Next]_vars /\ WF_vars(Step)

----------------------------------------------------------------------------
(* The frequency shift of process_csi_data as a function of its own: it is *)
(* applied, then applied again, to N = int(bandwidth * 3.2) samples.       *)

SampleValues == {<<3, -4>>, <<0, 1>>}

InitShift ==
    /\ pc = "waiting"
    /\ key = FALSE
    /\ captured = 0
    /\ frame = NoFrame
    /\ before_ts = 0
    /\ csi_data = <<>>
    /\ y_list = setup_plot
    /\ minmax = <<>>
    /\ gap_count = 0
    /\ idx = show_packet_length - 1
    /\ txt = <<>>
    /\ csv = setup_csv_file
    /\ drawn = <<>>
    /\ accepted = <<>>
    /\ bandwidth \in 1..MaxBandwidth
    /\ samples \in [1..NsubOf(bandwidth) -> SampleValues]
    /\ shifted = samples
    /\ applied = 0

ApplyShift ==
    /\ applied < 2
    /\ shifted' = fftshift(shifted)
    /\ applied' = applied + 1
    /\ UNCHANGED <<bandwidth, samples>>
    /\ UNCHANGED loopVars

SpecShift == InitShift /\ [][ApplyShift]_vars

----------------------------------------------------------------------------
(* Histories read off the state.                                           *)

(* Number of update_plot calls so far.                                     *)
Updates == idx - (show_packet_length - 1)

LastAcceptedTs == IF accepted = <<>> THEN 0 ELSE accepted[Len(accepted)].ts

(* Same integer part and same first decimal, on hundredths of a second.    *)
SameTenth(a, b) == (a \div 100 = b \div 100) /\ (a \div 10 = b \div 10)

(* A step that rejects the current frame: a `continue` of sniffing().      *)
RejectStep == pc \in {"dup_check", "parse"} /\ pc' = "waiting"

BetweenFrames == pc \in {"waiting", "timed_out", "dup_check", "parse",
                         "stop_check", "stopped"}

----------------------------------------------------------------------------
(* C1: right after update_plot ran with the cadence counter at 0, every    *)
(* subcarrier's (min, max) is (v, v) for its new value v, so that the gap  *)
(* reported for that frame is 0.                                           *)
C1_ResetGivesZeroGap ==
    (pc = "draw" /\ GAP_PACKET_NUM > 1 /\ gap_count = 1)
        => txt = <<0>>

(* C2: after at least one accepted frame, minmax has exactly N entries and *)
(* y_list exactly N windows.                                               *)
C2_ContainersHaveNEntries ==
    Updates >= 1 => (Len(minmax) = NSUB /\ Len(y_list) = NSUB)

(* C3: every window is a FIFO of length show_packet_length: it always      *)
(* holds the last show_packet_length entries, in arrival order, of the     *)
(* initial zeros followed by the amplitudes of the frames update_plot has  *)
(* handled (the rows written for them, in row order).                      *)
C3_Arrived(i) ==
    [j \in 1..show_packet_length |-> 0] \o [k \in 1..Updates |-> csv[k + 1].data[i]]

C3_WindowIsFifo ==
    /\ Len(y_list) = NSUB
    /\ \A i \in 1..NSUB :
        /\ Len(y_list[i]) = show_packet_length
        /\ y_list[i] = SubSeq(C3_Arrived(i), Updates + 1, Updates + show_packet_length)

(* C3 witness: a window that was filled by real amplitudes and has since   *)
(* evicted one of them, holding two different values.                      *)
C3_Witness ==
    /\ Updates > show_packet_length
    /\ y_list[1][1] # y_list[1][show_packet_length]

(* C4: no per-frame failure (frame too short for its headers, CSI payload  *)
(* shorter than 4*N bytes, failing CSV or display write) halts the loop.   *)
C4_LoopSurvivesFrameFailures == pc # "crashed"

(* C5: the duplicate check rejects the frame exactly when its timestamp    *)
(* has the integer part and the one-decimal truncation of the most recent  *)
(* accepted frame's timestamp (0.0 before any); the rejected frame is      *)
(* neither logged nor displayed.                                           *)
C5_DuplicateRejectedExactly ==
    [][(pc = "dup_check" /\ pc' # pc)
        => /\ pc' \in {"waiting", "parse"}
           /\ (pc' = "waiting") <=> SameTenth(frame.ts, LastAcceptedTs)
           /\ pc' = "waiting" => (csv' = csv /\ drawn' = drawn /\ y_list' = y_list)]_vars

(* C5 witness: a frame was accepted and logged, and a later frame with     *)
(* another timestamp of the same tenth of a second has been dropped.       *)
C5_Witness ==
    /\ pc = "waiting"
    /\ accepted # <<>>
    /\ before_ts # LastAcceptedTs
    /\ SameTenth(before_ts, LastAcceptedTs)
    /\ Len(csv) = 1 + Len(accepted)

(* C6 (as claimed): a rejected frame changes none of the windows, the gap  *)
(* accumulator, the cadence counter, before_ts and the CSV log.            *)
C6_RejectChangesNothing ==
    [][RejectStep => UNCHANGED <<y_list, minmax, gap_count, before_ts, csv>>]_vars

(* C6 (amended): a rejected frame changes none of the windows, the gap     *)
(* accumulator, the cadence counter, the shown gap, the CSV log and the    *)
(* display; a frame of another device leaves before_ts alone, while a      *)
(* duplicate overwrites before_ts with its own timestamp, which has the    *)
(* same integer part and one-decimal truncation as the value it replaces.  *)
C6_RejectKeepsSessionState ==
    [][RejectStep
        => /\ UNCHANGED <<y_list, minmax, gap_count, idx, txt, csv, drawn, accepted>>
           /\ pc = "parse" => before_ts' = before_ts
           /\ pc = "dup_check" => /\ before_ts' = frame.ts
                                  /\ SameTenth(before_ts', before_ts)]_vars

(* C6 witness: frames of both kinds were rejected: before_ts is that of a  *)
(* dropped duplicate, and more than one captured frame was not accepted.   *)
C6_Witness ==
    /\ pc = "waiting"
    /\ captured >= Len(accepted) + 2
    /\ before_ts # LastAcceptedTs
    /\ Len(drawn) = Len(accepted)

(* C7: the loop stops only from the poll at the end of an iteration that   *)
(* accepted the current frame, with the key down, after that frame's row   *)
(* was appended, the windows and gap updated and the plot drawn; a         *)
(* completed draw always leads to the poll.                                *)
C7_StopOnlyAfterCompletedFrame ==
    [][/\ (pc' = "stopped" /\ pc # "stopped")
            => /\ pc = "stop_check"
               /\ key
               /\ accepted # <<>>
               /\ accepted[Len(accepted)].id = frame.id
               /\ Len(csv) = 1 + Len(accepted)
               /\ csv[Len(csv)] = Row(frame.id, csi_data)
               /\ Updates = Len(accepted)
               /\ \A i \in 1..NSUB : y_list[i][show_packet_length] = csi_data[i]
               /\ Len(drawn) = Len(accepted)
               /\ drawn[Len(drawn)] = frame.id
       /\ (pc = "draw" /\ pc' \notin {"draw", "crashed"}) => pc' = "stop_check"]_vars

(* C7 witness: the loop has stopped after several accepted frames and at   *)
(* least one rejected one.                                                 *)
C7_Witness ==
    /\ pc = "stopped"
    /\ Len(drawn) >= 2
    /\ captured > Len(accepted)

(* C8: the CSV file is one header line followed by rows only, the rows are *)
(* those of the accepted frames in the order of acceptance, the plot was   *)
(* drawn for the same frames in the same order, and between iterations     *)
(* every accepted frame has its row and its draw.                          *)
C8_LogAndDisplayInAcceptOrder ==
    /\ csv[1] = Header
    /\ \A k \in 2..Len(csv) : csv[k].kind = "row"
    /\ Len(csv) - 1 <= Len(accepted)
    /\ \A k \in 2..Len(csv) :
        /\ csv[k].timestamp = accepted[k - 1].id
        /\ Len(csv[k].data) = NSUB
    /\ Len(drawn) <= Len(csv) - 1
    /\ \A k \in 1..Len(drawn) : drawn[k] = accepted[k].id
    /\ Len(accepted) <= Len(drawn) + 1
    /\ BetweenFrames => (Len(csv) - 1 = Len(accepted) /\ Len(drawn) = Len(accepted))

(* C8 witness: between two iterations, with several frames accepted and    *)
(* at least one rejected among the captured ones.                          *)
C8_Witness ==
    /\ pc = "waiting"
    /\ Len(accepted) >= 2
    /\ captured > Len(accepted)
    /\ Len(csv) = 1 + Len(accepted)

(* C9 (as claimed): applying the shift twice returns the original order,   *)
(* for every N = int(bandwidth * 3.2).                                     *)
C9_ShiftTwiceIsIdentity == applied = 2 => shifted = samples

(* C9 (amended): applying the shift twice returns the original order when  *)
(* N is even; when N is odd it leaves the samples rolled by one place      *)
(* (entry i holds the original entry i + 1, cyclically).                   *)
C9_ShiftTwiceEvenN ==
    applied = 2 =>
        LET n == NsubOf(bandwidth)
        IN  /\ Len(shifted) = n
            /\ n % 2 = 0 => shifted = samples
            /\ n % 2 = 1 => \A i \in 1..n : shifted[i] = samples[(i % n) + 1]

(* C9 witness: an even number of samples, not all equal, shifted twice.    *)
C9_Witness ==
    /\ applied = 2
    /\ NsubOf(bandwidth) % 2 = 0
    /\ \E i, j \in 1..Len(samples) : samples[i] # samples[j]

(* C10 (as claimed): once the stop key is down and stays down, the loop    *)
(* eventually stops, whatever the sniffer delivers.  A run that ends in an *)
(* uncaught exception (C4) is granted to the claim here, so that a         *)
(* violation is a loop that keeps running with the key down.               *)
C10_HeldKeyStopsLoop == key ~> (pc \in {"stopped", "crashed"} \/ ~key)

(* C10 (amended): the key stops the loop at the poll that ends an          *)
(* iteration which accepted and fully processed a frame, and only there:   *)
(* that poll, taken with the key down, stops the loop, and with the key    *)
(* down a timeout or a rejected frame leads back to waiting for a frame.   *)
C10_StopAtEndOfAcceptedFrame ==
    [][/\ (pc = "stop_check" /\ key /\ pc' # pc) => pc' = "stopped"
       /\ (pc' = "stopped" /\ pc # "stopped") => (pc = "stop_check" /\ key)
       /\ (key /\ pc \in {"waiting", "timed_out"} /\ pc' # pc)
            => pc' \in {"waiting", "timed_out", "dup_check"}
       /\ (key /\ RejectStep) => pc' = "waiting"]_vars

(* C10 witness: the loop has stopped with the key down, after a rejected   *)
(* frame earlier in the session.                                           *)
C10_Witness ==
    /\ pc = "stopped"
    /\ key
    /\ captured > Len(accepted)
    /\ Len(accepted) >= 1

====
